---- MODULE Spec2Model ----
(***************************************************************************)
(* pdf-pwbf: the command-line brute-force search of src/src/main.rs.       *)
(*                                                                         *)
(* main validates the arguments and counts the search space, loads the     *)
(* document, and calls brute_force, which calls brute_force_length once    *)
(* per length.  brute_force_length cuts the keyspace of one length into    *)
(* chunks and hands them to a rayon pool through find_map_any; each chunk  *)
(* is a sequential loop over its indices that polls found_flag, encodes    *)
(* the index, verifies the candidate and advances the progress bar.        *)
(*                                                                         *)
(* Integer widths.  TLC's integers are 32-bit, so the program's u64       *)
(* (usize) and u128 cannot be represented as they are.  The model keeps    *)
(* the widths' roles and their order u32 < u64 < u128 and scales them:     *)
(* u64 has WordBits bits, u128 twice as many, u32 (the exponent of         *)
(* checked_pow, `len as u32`) has ExpBits bits.  Every other number of the *)
(* program (the chunk floor 1000, the factor 4, the alphabets, the exit    *)
(* codes) is the program's own.                                            *)
(***************************************************************************)
EXTENDS Integers, Sequences, FiniteSets, TLC

\* ------------------------------------------------------------------ bounds
\* Bits of the model's u64/usize (the program's have 64).
WordBits == 13
\* Bits of the model's u32 (the program's have 32).
ExpBits == 3
\* Largest ordinary length given as --min / --max.
MaxLen == 2
\* Largest --threads given.
MaxThreads == 2
\* Largest alphabet and largest length the codec is applied to on its own.
MaxCodecBase == 3
MaxCodecLen == 3

RECURSIVE Pow(_, _)
Pow(b, e) == IF e = 0 THEN 1 ELSE b * Pow(b, e - 1)

U64_MAX == Pow(2, WordBits) - 1
U64_MOD == Pow(2, WordBits)
U128_MAX == Pow(2, 2 * WordBits) - 1
U32_MOD == Pow(2, ExpBits)

Min(a, b) == IF a < b THEN a ELSE b
Max(a, b) == IF a > b THEN a ELSE b

\* ------------------------------------------------------------- the alphabet
DIGITS == <<"0", "1", "2", "3", "4", "5", "6", "7", "8", "9">>
LETTERS ==
    <<"a", "b", "c", "d", "e", "f", "g", "h", "i", "j", "k", "l", "m",
      "n", "o", "p", "q", "r", "s", "t", "u", "v", "w", "x", "y", "z",
      "A", "B", "C", "D", "E", "F", "G", "H", "I", "J", "K", "L", "M",
      "N", "O", "P", "Q", "R", "S", "T", "U", "V", "W", "X", "Y", "Z">>
SYMBOLS ==
    <<"!", "@", "#", "$", "%", "^", "&", "*", "(", ")", "-", "_", "=", "+",
      "[", "]", "{", "}", "|", "backslash", ":", ";", "dquote", "squote", ",", ".", "<", ">",
      "/", "?", "backtick", "~">>

\* The charset of main: the selected sets appended in the order digit, alphabet, symbol.
BuildCharset(digit, alphabet, symbol) ==
    (IF digit THEN DIGITS ELSE << >>)
        \o (IF alphabet THEN LETTERS ELSE << >>)
        \o (IF symbol THEN SYMBOLS ELSE << >>)

\* ------------------------------------------------------------ checked_pow
\* u128::checked_pow(base, exp): the power, or None (-1) when it does not fit.
RECURSIVE checked_pow(_, _)
checked_pow(base, exp) ==
    IF exp = 0 THEN 1
    ELSE LET acc == checked_pow(base, exp - 1)
         IN  IF acc = -1 THEN -1
             ELSE IF base # 0 /\ acc > U128_MAX \div base THEN -1
             ELSE acc * base

\* `len as u32`: the cast keeps the low bits of the usize.
as_u32(len) == len % U32_MOD

\* `combos as u64`: the cast keeps the low bits of the u128.
as_u64(n) == n % U64_MOD

\* ------------------------------------------------------------ the codec
Reverse(s) == [i \in 1..Len(s) |-> s[Len(s) + 1 - i]]

\* The loop of lines 309-313: target_len digits of index, least significant first.
RECURSIVE chars_reversed(_, _, _)
chars_reversed(index, n, charset) ==
    IF n = 0 THEN << >>
    ELSE <<charset[(index % Len(charset)) + 1]>>
             \o chars_reversed(index \div Len(charset), n - 1, charset)

\* index_to_password_with_buffer: the content of `buffer` after the call.
index_to_password_NoRev(index, target_len, charset, buffer) ==
    LET cleared == SubSeq(buffer, 1, 0)
    IN  IF target_len = 0 THEN cleared
        ELSE cleared \o chars_reversed(index, target_len, charset)

index_to_password_with_buffer(index, target_len, charset, buffer) ==
    LET cleared == SubSeq(buffer, 1, 0)
    IN  IF target_len = 0 THEN cleared
        ELSE cleared \o Reverse(chars_reversed(index, target_len, charset))

\* --------------------------------------------------- program constants
\* The floor of the chunk size (line 249) and the chunks aimed at per thread (line 250).
MIN_CHUNK == 1000
CHUNKS_PER_THREAD == 4
\* Process exit codes: main returning, exit(1), exit(2), exit(3).
EXIT_OK == 0
EXIT_CONFIG == 1
EXIT_NOT_FOUND == 2
EXIT_ERROR == 3

\* ------------------------------------------------------ the partitioner
\* Line 248: max(1000, combos_u64 / (threads as u64 * 4)).
chunk_size_of(combos_u64, threads) ==
    Max(MIN_CHUNK, combos_u64 \div as_u64(threads * CHUNKS_PER_THREAD))

\* Line 252: does combos_u64 + chunk_size leave the u64 range?
num_chunks_overflows(combos_u64, cs) == combos_u64 + cs > U64_MAX

\* Line 252, (combos_u64 + chunk_size - 1) / chunk_size in wrapping u64 arithmetic
\* (a build without overflow checks); equal to the exact quotient when nothing wraps.
num_chunks_of(combos_u64, cs) ==
    as_u64(as_u64(combos_u64 + cs) + U64_MOD - 1) \div cs

\* Lines 260-261: the bounds of chunk chunk_idx, in wrapping u64 arithmetic.
chunk_start_Unscaled(chunk_idx, cs) == as_u64(chunk_idx)

chunk_start(chunk_idx, cs) == as_u64(chunk_idx * cs)
chunk_end(chunk_idx, cs, combos_u64) ==
    Min(as_u64(chunk_start(chunk_idx, cs) + cs), combos_u64)

\* ------------------------------------------------------ the search space
\* Lines 97-112: the loop that counts total_attempts over min..=max; -1 when
\* checked_pow or checked_add returns None (the program exits with code 1).
RECURSIVE count_attempts(_, _, _, _)
count_attempts(charset_len, len, max, total) ==
    IF len > max THEN total
    ELSE LET combos == checked_pow(charset_len, as_u32(len))
         IN  IF combos = -1 THEN -1
             ELSE IF combos > U128_MAX - total THEN -1
             ELSE count_attempts(charset_len, len + 1, max, total + combos)

\* ------------------------------------------------------------ the state
VARIABLES
    args,           \* the parsed command line: digit, alphabet, symbol, min, max, threads
    matchPw,        \* the passwords authenticate_password accepts
    errPw,          \* the passwords on which authenticate_password fails otherwise
    pc,             \* where main is
    exit_code,      \* the process exit code, once pc = "exit"
    charset,        \* main's charset
    total_attempts, \* main's total_attempts, the length of the progress bar
    progress,       \* the position of the progress bar
    found_flag,     \* the AtomicBool shared by all chunks of all lengths
    result,         \* what brute_force returned
    target_len,     \* brute_force's loop variable
    chunk_size,     \* brute_force_length's chunk_size
    num_chunks,     \* brute_force_length's num_chunks
    chunk,          \* the state of each call of the find_map_any closure
    full,           \* rayon's own flag: a closure has returned Some
    reopened,       \* whether main decrypted the document with the found password
    calls,          \* history: verification calls completed in this length's search
    matched_calls,  \* history: the candidates for which a call returned Ok(true)
    err_calls,      \* history: the candidates for which a call returned Err
    lenlog,         \* history: the searches of the lengths that have returned
    stores,         \* history: how many times found_flag.store(true) has run
    post_match,     \* history: calls completed after the first call that matched
    pure            \* the input and output of a function applied on its own

vars ==
    <<args, matchPw, errPw, pc, exit_code, charset, total_attempts, progress,
      found_flag, result, target_len, chunk_size, num_chunks, chunk, full,
      reopened, calls, matched_calls, err_calls, lenlog, stores, post_match, pure>>

inputVars == <<args, matchPw, errPw, pure>>
mainVars == <<exit_code, charset, total_attempts, reopened>>
lengthVars == <<target_len, chunk_size, num_chunks>>
cancelVars == <<stores, post_match>>
historyVars == <<calls, matched_calls, err_calls, lenlog, cancelVars>>

\* Option<Result<String, Error>>; an error is named by the candidate it arose on.
\* Unset: brute_force has not returned.
Unset == [kind |-> "Unset", val |-> << >>]
None == [kind |-> "None", val |-> << >>]
SomeOk(pw) == [kind |-> "Ok", val |-> pw]
SomeErr(pw) == [kind |-> "Err", val |-> pw]

\* A closure call that rayon has not started.  Three fields are history: the
\* calls of try_password the closure has completed (tried), those of them that
\* completed while found_flag was true (late), and whether rayon started the
\* closure while found_flag was true (started_late).
PendingChunk ==
    [pc |-> "pending", index |-> 0, end |-> 0, buffer |-> << >>,
     attempt |-> "none", item |-> None,
     tried |-> 0, late |-> 0, started_late |-> FALSE]

\* ------------------------------------------------------------ the inputs
\* The length-`len` candidate number `index` of the keyspace: its base-N digits,
\* most significant first, N = Len(cs).
RECURSIVE DivPow(_, _, _)
DivPow(n, base, e) == IF e = 0 THEN n ELSE DivPow(n \div base, base, e - 1)
Candidate(cs, len, index) ==
    [p \in 1..len |-> cs[(DivPow(index, Len(cs), len - p) % Len(cs)) + 1]]

\* The value of a candidate as a base-N number, most significant digit first;
\* the symbols are distinct, so each has one position in the alphabet.
PositionOf(cs, ch) == CHOOSE d \in 0..(Len(cs) - 1) : cs[d + 1] = ch
RECURSIVE ValueOf(_, _)
ValueOf(cs, pw) ==
    IF pw = << >> THEN 0
    ELSE ValueOf(cs, SubSeq(pw, 1, Len(pw) - 1)) * Len(cs)
             + PositionOf(cs, pw[Len(pw)])

\* The command lines tried.  --min and --max are the ordinary lengths and the two
\* smallest lengths that `as u32` changes.  The alphabets are none, the digits,
\* the symbols, and the letters with the symbols (the last single-threaded: its
\* two-symbol keyspace is the largest the u64 of the model holds).
LenArgs == (0..MaxLen) \cup {U32_MOD, U32_MOD + 1}
FlagArgs == {<<FALSE, FALSE, FALSE>>, <<TRUE, FALSE, FALSE>>,
             <<FALSE, FALSE, TRUE>>, <<FALSE, TRUE, TRUE>>}
CommandLines ==
    {[digit |-> f[1], alphabet |-> f[2], symbol |-> f[3],
      min |-> lo, max |-> hi, threads |-> t] :
        f \in FlagArgs, lo \in LenArgs, hi \in LenArgs, t \in 0..MaxThreads}

\* The size of the keyspace of one length as the program computes it, capped.
SeenCombos(cs, len) ==
    LET c == checked_pow(Len(cs), as_u32(len))
    IN  IF c = -1 \/ c > U64_MAX THEN U64_MAX ELSE c

\* The places where a verifier outcome is planted: in each length of the range the
\* first, the middle and the last index, and the first index of the second chunk.
StartSlots(k) == {0} \cup (IF k > MIN_CHUNK THEN {MIN_CHUNK} ELSE {})
AllSlots(k) == StartSlots(k) \cup {k \div 2, k - 1}
PlantLens(a) == (a.min..a.max) \cap LenArgs
StartPlants(a, cs) ==
    UNION {{Candidate(cs, l, i) : i \in StartSlots(SeenCombos(cs, l))} : l \in PlantLens(a)}
AllPlants(a, cs) ==
    UNION {{Candidate(cs, l, i) : i \in AllSlots(SeenCombos(cs, l))} : l \in PlantLens(a)}

\* In errPw: authenticate_password fails on every candidate (a damaged document).
EveryCandidate == <<"every candidate">>

\* The verifiers tried: no planted outcome, one match anywhere, one error at a
\* chunk start, two outcomes at two chunk starts, or an error on every candidate.
Verifiers(a, cs) ==
    IF cs = << >> THEN {[match |-> {}, err |-> {}]}
    ELSE {[match |-> {}, err |-> {}], [match |-> {}, err |-> {EveryCandidate}]}
         \cup {[match |-> {m}, err |-> {}] : m \in AllPlants(a, cs)}
         \cup {[match |-> {}, err |-> {e}] : e \in StartPlants(a, cs)}
         \cup {[match |-> m, err |-> e] :
                 m \in SUBSET StartPlants(a, cs), e \in SUBSET StartPlants(a, cs)}

\* The verifier adapter, lines 321-327, over the planted outcomes of
\* authenticate_password.
try_password(pw) ==
    IF pw \in matchPw THEN "Matched"
    ELSE IF pw \in errPw \/ EveryCandidate \in errPw THEN "Error"
    ELSE "Rejected"

Init ==
    /\ args \in {a \in CommandLines : a.alphabet => a.threads <= 1}
    /\ \E v \in Verifiers(args, BuildCharset(args.digit, args.alphabet, args.symbol)) :
          /\ Cardinality(v.match) + Cardinality(v.err) <= 2
          /\ v.match \cap v.err = {}
          /\ matchPw = v.match
          /\ errPw = v.err
    /\ pc = "main"
    /\ exit_code = EXIT_OK
    /\ charset = << >>
    /\ total_attempts = 0
    /\ progress = 0
    /\ found_flag = FALSE
    /\ result = Unset
    /\ reopened = "unset"
    /\ pure = [op |-> "none"]
    /\ target_len = 0
    /\ chunk_size = 0
    /\ num_chunks = 0
    /\ chunk = << >>
    /\ full = FALSE
    /\ calls = 0
    /\ matched_calls = {}
    /\ err_calls = {}
    /\ lenlog = << >>
    /\ stores = 0
    /\ post_match = 0

\* ------------------------------------------------------------------ main
\* Lines 57-123: the checks of the arguments and the count of the search space.
Validate ==
    /\ pc = "main"
    /\ LET cs == BuildCharset(args.digit, args.alphabet, args.symbol)
           bad_args == args.min > args.max \/ args.threads = 0
           total == count_attempts(Len(cs), args.min, args.max, 0)
       IN  /\ charset' = IF bad_args THEN << >> ELSE cs
           /\ IF bad_args \/ cs = << >>
                  THEN pc' = "exit" /\ exit_code' = EXIT_CONFIG /\ UNCHANGED total_attempts
              ELSE IF total = -1
                  THEN pc' = "exit" /\ exit_code' = EXIT_CONFIG /\ UNCHANGED total_attempts
              ELSE IF total = 0
                  THEN pc' = "exit" /\ exit_code' = EXIT_OK /\ UNCHANGED total_attempts
              ELSE IF total > U64_MAX
                  THEN pc' = "exit" /\ exit_code' = EXIT_CONFIG /\ UNCHANGED total_attempts
              ELSE pc' = "load" /\ total_attempts' = as_u64(total) /\ UNCHANGED exit_code
    /\ UNCHANGED <<inputVars, reopened, progress, found_flag, result, lengthVars,
                   chunk, full, historyVars>>

\* Lines 125-165: the document is loaded; an encrypted one starts brute_force with
\* a fresh found_flag.
LoadDocument ==
    /\ pc = "load"
    /\ \E doc \in {"encrypted", "unreadable", "plain"} :
          IF doc = "unreadable"
              THEN pc' = "exit" /\ exit_code' = EXIT_CONFIG
                   /\ UNCHANGED <<found_flag, target_len>>
          ELSE IF doc = "plain"
              THEN pc' = "exit" /\ exit_code' = EXIT_OK
                   /\ UNCHANGED <<found_flag, target_len>>
          ELSE pc' = "brute_force" /\ found_flag' = FALSE /\ target_len' = args.min
               /\ UNCHANGED exit_code
    /\ UNCHANGED <<inputVars, charset, total_attempts, reopened, progress, result,
                   chunk_size, num_chunks, chunk, full, historyVars>>

\* Lines 167-201: the result of brute_force becomes the exit code.  A found
\* password is used to decrypt a copy of the document, which can fail.
\* Lines 171-200: the exit code for the result of brute_force.
exit_code_of_NotFoundOk(res, decrypted) ==
    IF res.kind = "Ok" THEN (IF decrypted THEN EXIT_OK ELSE EXIT_ERROR)
    ELSE IF res.kind = "None" THEN EXIT_OK
    ELSE EXIT_ERROR

exit_code_of(res, decrypted) ==
    IF res.kind = "Ok" THEN (IF decrypted THEN EXIT_OK ELSE EXIT_ERROR)
    ELSE IF res.kind = "None" THEN EXIT_NOT_FOUND
    ELSE EXIT_ERROR

Report ==
    /\ pc = "report"
    /\ pc' = "exit"
    /\ \E decrypted \in (IF result.kind = "Ok" THEN BOOLEAN ELSE {FALSE}) :
          /\ exit_code' = exit_code_of(result, decrypted)
          /\ reopened' = IF result.kind # "Ok" THEN "unset"
                         ELSE IF decrypted THEN "ok" ELSE "failed"
    /\ UNCHANGED <<inputVars, charset, total_attempts, progress, found_flag, result,
                   lengthVars, chunk, full, historyVars>>

\* ----------------------------------------------------------- brute_force
\* Lines 214-216 and 234-252: the next length of the range, or Ok(None) after the
\* last; brute_force_length sizes the chunks of the length.  Where the u64 sum
\* of line 252 overflows, a build with overflow checks panics and one without wraps.
EnterLength ==
    /\ pc = "brute_force"
    /\ LET combos == checked_pow(Len(charset), as_u32(target_len))
           combos_u64 == as_u64(combos)
           cs == chunk_size_of(combos_u64, args.threads)
           n == num_chunks_of(combos_u64, cs)
       IN  IF target_len > args.max
               THEN /\ pc' = "report"
                    /\ result' = None
                    /\ UNCHANGED <<lengthVars, chunk, full, historyVars>>
           ELSE IF combos = -1
               THEN /\ pc' = "panicked"
                    /\ UNCHANGED <<result, lengthVars, chunk, full, historyVars>>
           ELSE IF combos = 0
               THEN /\ pc' = "brute_force"
                    /\ target_len' = target_len + 1
                    /\ lenlog' = Append(lenlog, [len |-> target_len, outcome |-> None,
                                                 produced |-> {}, attempts |-> 0])
                    /\ UNCHANGED <<result, chunk_size, num_chunks, chunk, full, calls,
                                   matched_calls, err_calls, cancelVars>>
           ELSE \E build \in (IF num_chunks_overflows(combos_u64, cs)
                                  THEN {"wrapping", "checked"} ELSE {"wrapping"}) :
                    IF build = "checked"
                        THEN /\ pc' = "panicked"
                             /\ UNCHANGED <<result, lengthVars, chunk, full, historyVars>>
                    ELSE /\ pc' = "install"
                         /\ chunk_size' = cs
                         /\ num_chunks' = n
                         /\ chunk' = [c \in 0..(n - 1) |-> PendingChunk]
                         /\ full' = FALSE
                         /\ calls' = 0
                         /\ UNCHANGED <<result, target_len, matched_calls, err_calls,
                                        lenlog, cancelVars>>
    /\ UNCHANGED <<inputVars, mainVars, progress, found_flag>>

\* --------------------------------------------- the closure of find_map_any
Running == {c \in DOMAIN chunk : chunk[c].pc \notin {"pending", "done"}}

\* rayon starts the closure on the next item of an idle pool thread, unless a
\* closure has already returned Some.  A pool of one thread takes the items in
\* ascending order; with more threads the halves of the range are stolen and any
\* pending item can be the next one a thread starts.
StartChunk(c) ==
    /\ pc = "install"
    /\ chunk[c].pc = "pending"
    /\ ~full
    /\ Cardinality(Running) < args.threads
    /\ args.threads = 1 => \A d \in DOMAIN chunk : chunk[d].pc = "pending" => c <= d
    /\ chunk' = [chunk EXCEPT ![c].pc = "entry", ![c].started_late = found_flag]
    /\ UNCHANGED <<inputVars, pc, mainVars, progress, found_flag, result, lengthVars,
                   full, historyVars>>

\* Lines 256-262: the flag is read once before the chunk's bounds are computed.
ChunkEntry(c) ==
    /\ pc = "install"
    /\ chunk[c].pc = "entry"
    /\ LET start == chunk_start(c, chunk_size)
           end == chunk_end(c, chunk_size, as_u64(checked_pow(Len(charset),
                                                              as_u32(target_len))))
       IN  chunk' = IF found_flag \/ start >= end
                        THEN [chunk EXCEPT ![c].pc = "done"]
                    ELSE [chunk EXCEPT ![c].pc = "load", ![c].index = start,
                                       ![c].end = end]
    /\ UNCHANGED <<inputVars, pc, mainVars, progress, found_flag, result, lengthVars,
                   full, historyVars>>

\* Lines 265-267: the flag is read before each candidate.
LoadFlag_NoPoll(c) ==
    /\ pc = "install"
    /\ chunk[c].pc = "load"
    /\ chunk' = [chunk EXCEPT ![c].pc = "verify"]
    /\ UNCHANGED <<inputVars, pc, mainVars, progress, found_flag, result, lengthVars,
                   full, historyVars>>

LoadFlag(c) ==
    /\ pc = "install"
    /\ chunk[c].pc = "load"
    /\ chunk' = [chunk EXCEPT ![c].pc = IF found_flag THEN "done" ELSE "verify"]
    /\ UNCHANGED <<inputVars, pc, mainVars, progress, found_flag, result, lengthVars,
                   full, historyVars>>

\* Lines 269-270: the candidate is encoded into the chunk's buffer and verified.
Verify(c) ==
    /\ pc = "install"
    /\ chunk[c].pc = "verify"
    /\ LET pw == index_to_password_with_buffer(chunk[c].index, target_len, charset,
                                               chunk[c].buffer)
       IN  /\ chunk' = [chunk EXCEPT ![c].pc = "inc", ![c].buffer = pw,
                                     ![c].attempt = try_password(pw),
                                     ![c].tried = @ + 1,
                                     ![c].late = IF found_flag THEN @ + 1 ELSE @]
           /\ matched_calls' = IF try_password(pw) = "Matched"
                                   THEN matched_calls \cup {pw} ELSE matched_calls
           /\ err_calls' = IF try_password(pw) = "Error"
                               THEN err_calls \cup {pw} ELSE err_calls
    /\ calls' = calls + 1
    /\ post_match' = IF matched_calls # {} THEN Min(post_match + 1, args.threads)
                      ELSE post_match
    /\ UNCHANGED <<inputVars, pc, mainVars, progress, found_flag, result, lengthVars,
                   full, lenlog, stores>>

\* Lines 271-281: the progress bar advances, then the outcome decides: Ok(false)
\* goes on to the next index (or ends the chunk with None), Err returns at once.
\* Lines 273-280, the arms of the match on the attempt.
after_attempt_ErrContinues(ch) ==
    IF ch.attempt = "Matched" THEN [ch EXCEPT !.pc = "store"]
    ELSE IF ch.index + 1 < ch.end
        THEN [ch EXCEPT !.pc = "load", !.index = ch.index + 1]
    ELSE [ch EXCEPT !.pc = "done"]

after_attempt_ErrStores(ch) ==
    IF ch.attempt \in {"Matched", "Error"} THEN [ch EXCEPT !.pc = "store"]
    ELSE IF ch.index + 1 < ch.end
        THEN [ch EXCEPT !.pc = "load", !.index = ch.index + 1]
    ELSE [ch EXCEPT !.pc = "done"]

after_attempt(ch) ==
    IF ch.attempt = "Matched" THEN [ch EXCEPT !.pc = "store"]
    ELSE IF ch.attempt = "Error"
        THEN [ch EXCEPT !.pc = "ret", !.item = SomeErr(ch.buffer)]
    ELSE IF ch.index + 1 < ch.end
        THEN [ch EXCEPT !.pc = "load", !.index = ch.index + 1]
    ELSE [ch EXCEPT !.pc = "done"]

ProgressInc_SkipsErr(c) ==
    /\ pc = "install"
    /\ chunk[c].pc = "inc"
    /\ progress' = IF chunk[c].attempt = "Error" THEN progress ELSE progress + 1
    /\ chunk' = [chunk EXCEPT ![c] = after_attempt(chunk[c])]
    /\ UNCHANGED <<inputVars, pc, mainVars, found_flag, result, lengthVars, full,
                   historyVars>>

ProgressInc(c) ==
    /\ pc = "install"
    /\ chunk[c].pc = "inc"
    /\ progress' = progress + 1
    /\ chunk' = [chunk EXCEPT ![c] = after_attempt(chunk[c])]
    /\ UNCHANGED <<inputVars, pc, mainVars, found_flag, result, lengthVars, full,
                   historyVars>>

\* Lines 274-277: a match sets the flag and returns a copy of the buffer.
\* Line 276: Some(Ok(buffer.clone())).
matched_item_Reused(ch) ==
    SomeOk(index_to_password_with_buffer(ch.index + 1, target_len, charset, ch.buffer))

matched_item(ch) == SomeOk(ch.buffer)

StoreFlag(c) ==
    /\ pc = "install"
    /\ chunk[c].pc = "store"
    /\ found_flag' = TRUE
    /\ stores' = stores + 1
    /\ chunk' = [chunk EXCEPT ![c].pc = "ret", ![c].item = matched_item(chunk[c])]
    /\ UNCHANGED <<inputVars, pc, mainVars, progress, result, lengthVars, full,
                   calls, matched_calls, err_calls, lenlog, post_match>>

\* rayon receives a Some from the closure and stops starting further items.
Consume(c) ==
    /\ pc = "install"
    /\ chunk[c].pc = "ret"
    /\ full' = TRUE
    /\ chunk' = [chunk EXCEPT ![c].pc = "done"]
    /\ UNCHANGED <<inputVars, pc, mainVars, progress, found_flag, result, lengthVars,
                   historyVars>>

\* What find_map_any returns for the closures' results: rayon documents "any
\* non-None result"; its reducer keeps the left one, so the Some of the lowest
\* item among those produced is returned.
find_map_any(ch) ==
    LET some == {c \in DOMAIN ch : ch[c].item.kind # "None"}
    IN  IF some = {} THEN None
        ELSE ch[CHOOSE c \in some : \A d \in some : c <= d].item

\* Lines 254, 284-290 and 215-220: find_map_any returns once no closure runs and
\* none is left to start.  Ok(None) sends brute_force to the next length, anything
\* else is its result.
Aggregate ==
    /\ pc = "install"
    /\ Running = {}
    /\ full \/ \A c \in DOMAIN chunk : chunk[c].pc = "done"
    /\ LET search == find_map_any(chunk)
       IN  /\ lenlog' = Append(lenlog,
                  [len |-> target_len, outcome |-> search,
                   produced |-> {chunk[c].item : c \in {d \in DOMAIN chunk :
                                                          chunk[d].item.kind # "None"}},
                   attempts |-> calls])
           /\ IF search.kind = "None"
                  THEN pc' = "brute_force" /\ target_len' = target_len + 1
                       /\ UNCHANGED result
              ELSE pc' = "report" /\ result' = search /\ UNCHANGED target_len
    /\ UNCHANGED <<inputVars, mainVars, progress, found_flag, chunk_size, num_chunks,
                   chunk, full, calls, matched_calls, err_calls, cancelVars>>

Next ==
    \/ Validate
    \/ LoadDocument
    \/ EnterLength
    \/ \E c \in DOMAIN chunk : StartChunk(c)
    \/ \E c \in DOMAIN chunk : ChunkEntry(c)
    \/ \E c \in DOMAIN chunk : LoadFlag(c)
    \/ \E c \in DOMAIN chunk : Verify(c)
    \/ \E c \in DOMAIN chunk : ProgressInc(c)
    \/ \E c \in DOMAIN chunk : StoreFlag(c)
    \/ \E c \in DOMAIN chunk : Consume(c)
    \/ Aggregate
    \/ Report

Spec == Init /\ [][Next]_vars

\* The same program where every verification call returns and the pool keeps
\* running its workers: some step is taken as long as one is possible.  The
\* command lines are those with lengths of at most one symbol and those of the
\* largest alphabet.
InitFair == Init /\ (args.alphabet \/ args.max <= 1)
SpecFair == InitFair /\ [][Next]_vars /\ WF_vars(Next)

\* ------------------------------------------- the functions on their own
\* Every variable but `pure` at rest: no action of the program is enabled.
AtRest ==
    /\ args = [digit |-> FALSE, alphabet |-> FALSE, symbol |-> FALSE,
               min |-> 0, max |-> 0, threads |-> 1]
    /\ matchPw = {}
    /\ errPw = {}
    /\ pc = "pure"
    /\ exit_code = EXIT_OK
    /\ charset = << >>
    /\ total_attempts = 0
    /\ progress = 0
    /\ found_flag = FALSE
    /\ result = Unset
    /\ reopened = "unset"
    /\ target_len = 0
    /\ chunk_size = 0
    /\ num_chunks = 0
    /\ chunk = << >>
    /\ full = FALSE
    /\ calls = 0
    /\ matched_calls = {}
    /\ err_calls = {}
    /\ lenlog = << >>
    /\ stores = 0
    /\ post_match = 0
progVars ==
    <<args, matchPw, errPw, pc, mainVars, progress, found_flag, result, lengthVars,
      chunk, full, historyVars>>

\* The codec: two indices of one keyspace are encoded one after the other into
\* the same buffer, which holds `buffer` before the first call.
CodecBuffers == {<< >>, <<"z">>, <<"a", "b", "c", "a">>}
CodecInit ==
    /\ AtRest
    /\ \E n \in 1..MaxCodecBase, l \in 0..MaxCodecLen :
          \E i \in 0..(Pow(n, l) - 1), j \in 0..(Pow(n, l) - 1), b \in CodecBuffers :
              pure = [op |-> "encode", charset |-> SubSeq(LETTERS, 1, n),
                      target_len |-> l, index |-> i, other |-> j, buffer |-> b,
                      out |-> << >>, out_other |-> << >>, done |-> FALSE]
Encode ==
    /\ pure.op = "encode"
    /\ ~pure.done
    /\ LET first == index_to_password_with_buffer(pure.index, pure.target_len,
                                                  pure.charset, pure.buffer)
       IN  pure' = [pure EXCEPT
                       !.out = first,
                       !.out_other = index_to_password_with_buffer(
                                         pure.other, pure.target_len, pure.charset, first),
                       !.done = TRUE]
    /\ UNCHANGED progVars
SpecCodec == CodecInit /\ [][Encode]_vars

\* The partitioner: lines 248-261 for a keyspace size and a thread count.  The
\* sizes are the powers N^length of the alphabet sizes up to the full alphabet.
KeyspaceSizes ==
    {checked_pow(n, l) : n \in 1..Len(BuildCharset(TRUE, TRUE, TRUE)), l \in 0..WordBits}
        \cap (1..U64_MAX)
PartitionInit ==
    /\ AtRest
    /\ \E k \in KeyspaceSizes, w \in 1..MaxThreads :
          pure = [op |-> "partition", combos |-> k, threads |-> w, chunk_size |-> 0,
                  chunks |-> << >>, panicked |-> FALSE, done |-> FALSE]
Partition ==
    /\ pure.op = "partition"
    /\ ~pure.done
    /\ LET cs == chunk_size_of(pure.combos, pure.threads)
           n == num_chunks_of(pure.combos, cs)
       IN  \E build \in (IF num_chunks_overflows(pure.combos, cs)
                              THEN {"wrapping", "checked"} ELSE {"wrapping"}) :
               pure' = IF build = "checked"
                           THEN [pure EXCEPT !.chunk_size = cs, !.panicked = TRUE,
                                             !.done = TRUE]
                       ELSE [pure EXCEPT
                                !.chunk_size = cs,
                                !.chunks = [i \in 1..n |->
                                    [start |-> chunk_start(i - 1, cs),
                                     end |-> chunk_end(i - 1, cs, pure.combos)]],
                                !.done = TRUE]
    /\ UNCHANGED progVars
SpecPartition == PartitionInit /\ [][Partition]_vars

\* =================================================================== claims
\* The exact size base^len of a keyspace and the exact total over a range, with
\* no cast of the length; -1 stands for a number beyond the u128 range.
ExactCombos(base, len) == checked_pow(base, len)
RECURSIVE ExactTotal(_, _, _)
ExactTotal(base, lo, hi) ==
    IF lo > hi THEN 0
    ELSE LET c == ExactCombos(base, lo)
             rest == ExactTotal(base, lo + 1, hi)
         IN  IF c = -1 \/ rest = -1 \/ c > U128_MAX - rest THEN -1 ELSE c + rest

\* The planted outcomes among the candidates of one length.
MatchesOfLen(len) == {m \in matchPw : Len(m) = len}
ErrorsOfLen(len) == {e \in errPw : Len(e) = len}
Searched == {lenlog[i] : i \in 1..Len(lenlog)}
Returned == pc \in {"report", "exit"} /\ result.kind # "Unset"

\* C1: the search of one length in which exactly one candidate verifies as
\* Matched and every other as Rejected returns Matched with that candidate.
C1_UniqueMatchReturned ==
    \A e \in Searched :
        (Cardinality(MatchesOfLen(e.len)) = 1 /\ ErrorsOfLen(e.len) = {})
            => \E m \in MatchesOfLen(e.len) : e.outcome = SomeOk(m)

\* C2: when no candidate matches and no verification fails, a run returns
\* NotFound only after every candidate of every length of the range has been
\* attempted: the progress count then equals the sum of base^length over the range.
C2_NotFoundAfterAll ==
    (Returned /\ result.kind = "None" /\ matchPw = {} /\ errPw = {})
        => progress = ExactTotal(Len(charset), args.min, args.max)

\* C3: if any chunk of a length produced Matched, the result of the search of
\* that length is a match, whatever other chunks produced.
C3_MatchBeatsError ==
    \A e \in Searched :
        (\E it \in e.produced : it.kind = "Ok") => e.outcome.kind = "Ok"

\* C5: candidates of a length are verified only after every shorter length of the
\* range returned Exhausted with all its candidates attempted, and a length that
\* returns Matched or Error is the last one searched and gives the run's result.
C5_AscendingLengths ==
    /\ (pc = "install" /\ calls > 0)
          => \A l \in args.min..(target_len - 1) :
                \E e \in Searched :
                    /\ e.len = l
                    /\ e.outcome = None
                    /\ e.attempts = ExactCombos(Len(charset), l)
    /\ \A i \in 1..Len(lenlog) :
          lenlog[i].outcome # None
              => i = Len(lenlog) /\ Returned /\ result = lenlog[i].outcome

\* C6: in a configuration in which base^length for a length of the range, or the
\* total over the range, exceeds the u64 range, the program ends with the
\* configuration error before anything is verified: no verification call is made.
SpaceOverflows ==
    LET t == ExactTotal(Len(BuildCharset(args.digit, args.alphabet, args.symbol)),
                        args.min, args.max)
    IN  t = -1 \/ t > U64_MAX
C6_OverflowRejected ==
    (args.min <= args.max /\ (args.digit \/ args.alphabet \/ args.symbol)
         /\ SpaceOverflows)
        => calls = 0 /\ progress = 0

\* C4: with no Matched produced, a verification that returned Error makes the
\* result Error with the cause of one such call, for the length and for the run;
\* a chunk whose verifications were all Rejected ends only at the end of its
\* range (or on the flag), and a run of Rejected outcomes only ends after the
\* last length, as NotFound.
C4_ErrorNotMasked ==
    /\ (Returned /\ matched_calls = {} /\ err_calls # {})
          => result.kind = "Err" /\ result.val \in err_calls
    /\ \A e \in Searched :
          ((\A it \in e.produced : it.kind # "Ok") /\ e.produced # {})
              => e.outcome.kind = "Err" /\ e.outcome.val \in err_calls
    /\ \A c \in DOMAIN chunk :
          (chunk[c].pc = "done" /\ chunk[c].attempt = "Rejected" /\ ~found_flag)
              => chunk[c].index + 1 = chunk[c].end
    /\ (Returned /\ matched_calls = {} /\ err_calls = {})
          => result = None /\ Len(lenlog) = args.max - args.min + 1
C4_Witness ==
    /\ pc = "exit"
    /\ result.kind = "Err"
    /\ matched_calls = {}
    /\ progress > 1
    /\ exit_code = EXIT_ERROR

\* C9: a returned Matched(c) carries a candidate c for which a verification call
\* of this run returned Matched, also when two candidates match.
C9_ReturnedWasVerified ==
    /\ (Returned /\ result.kind = "Ok")
          => result.val \in matched_calls /\ try_password(result.val) = "Matched"
    /\ \A e \in Searched :
          e.outcome.kind = "Ok" => e.outcome.val \in matched_calls
C9_Witness ==
    /\ pc = "exit"
    /\ result.kind = "Ok"
    /\ Cardinality(matched_calls) = 2
    /\ num_chunks = 2

\* C10 as claimed: found, exhausted and aborted runs each end with their own
\* exit code, and no run that found a candidate ends with another's.
C10_OneCodePerOutcome ==
    (pc = "exit" /\ Returned)
        => exit_code = (IF result.kind = "Ok" THEN EXIT_OK
                        ELSE IF result.kind = "None" THEN EXIT_NOT_FOUND
                        ELSE EXIT_ERROR)
\* C10 as the code has it: the three codes differ, an exhausted run ends with 2, a
\* run aborted by a verifier error with 3, and a run that found a candidate with 0
\* when the document decrypts with it and with 3, like an aborted run, when not.
C10_ExitCodes ==
    /\ EXIT_OK # EXIT_NOT_FOUND /\ EXIT_OK # EXIT_ERROR /\ EXIT_NOT_FOUND # EXIT_ERROR
    /\ (pc = "exit" /\ Returned)
          => exit_code = (IF result.kind = "Ok" /\ reopened = "ok" THEN EXIT_OK
                          ELSE IF result.kind = "Ok" THEN EXIT_ERROR
                          ELSE IF result.kind = "None" THEN EXIT_NOT_FOUND
                          ELSE EXIT_ERROR)
C10_Witness ==
    /\ pc = "exit"
    /\ result.kind = "Ok"
    /\ reopened = "failed"
    /\ exit_code = EXIT_ERROR

\* C7: the chunks computed for a keyspace of K >= 1 indices are non-empty and
\* pairwise disjoint and their union is [0, K).
C7_ChunksPartition ==
    (pure.op = "partition" /\ pure.done /\ ~pure.panicked)
        => /\ \A c \in DOMAIN pure.chunks : pure.chunks[c].start < pure.chunks[c].end
           /\ \A c \in DOMAIN pure.chunks : pure.chunks[c].end <= pure.combos
           /\ \A i \in 0..(pure.combos - 1) :
                 Cardinality({c \in DOMAIN pure.chunks :
                                 pure.chunks[c].start <= i /\ i < pure.chunks[c].end}) = 1

\* C8: the codec maps the indices of [0, N^length) one-to-one onto the strings of
\* `length` alphabet symbols: the output has `length` symbols of the alphabet, it
\* is the base-N representation of the index, most significant digit first, two
\* indices give two strings, and what the buffer held before does not matter.
EncodedRight(cs, len, index, out) ==
    /\ Len(out) = len
    /\ \A p \in 1..Len(out) : \E d \in 1..Len(cs) : out[p] = cs[d]
    /\ ValueOf(cs, out) = index
    /\ out = Candidate(cs, len, index)
C8_CodecBijection ==
    (pure.op = "encode" /\ pure.done)
        => /\ EncodedRight(pure.charset, pure.target_len, pure.index, pure.out)
           /\ EncodedRight(pure.charset, pure.target_len, pure.other, pure.out_other)
           /\ pure.index # pure.other => pure.out # pure.out_other
C8_Witness ==
    /\ pure.op = "encode"
    /\ pure.done
    /\ pure.target_len = MaxCodecLen
    /\ Len(pure.charset) > 1
    /\ pure.buffer # << >>
    /\ pure.index # pure.other
    /\ pure.out # Reverse(pure.out)

\* C11 as claimed: a chunk completes at most one verification call while the flag
\* is true, at most W - 1 calls complete after the call that matched, and a
\* chunk started while the flag is true verifies nothing.
C11_BoundAfterMatch ==
    /\ \A c \in DOMAIN chunk : chunk[c].late <= 1
    /\ args.threads >= 1 => post_match <= args.threads - 1
    /\ \A c \in DOMAIN chunk : chunk[c].started_late => chunk[c].tried = 0
\* C11 as the code has it: the bound of W - 1 wasted calls counts from the store
\* of the flag, not from the return of the matching call: a chunk completes at
\* most one verification call while the flag is true, at most W - 1 calls in
\* total complete while it is true, and a chunk started while it is true
\* verifies nothing.
C11_BoundAfterStore ==
    /\ \A c \in DOMAIN chunk : chunk[c].late <= 1
    /\ args.threads >= 1
          => Cardinality({c \in DOMAIN chunk : chunk[c].late >= 1}) <= args.threads - 1
    /\ \A c \in DOMAIN chunk : chunk[c].started_late => chunk[c].tried = 0
    /\ \A c \in DOMAIN chunk : chunk[c].late > 0 => found_flag
C11_Witness ==
    /\ pc = "report"
    /\ found_flag
    /\ args.threads > 1
    /\ \E c \in DOMAIN chunk : chunk[c].late = 1 /\ chunk[c].attempt = "Rejected"

\* C12: the flag is true only if a verification call returned Matched; once true
\* it stays true; and it changes only in the step of a chunk whose call matched,
\* never after a Rejected or an Error outcome.
C12_FlagOnlyOnMatch ==
    /\ [](found_flag => matched_calls # {})
    /\ [][found_flag => found_flag']_vars
    /\ [][(found_flag' # found_flag)
             => \E c \in DOMAIN chunk :
                    /\ chunk[c].pc = "store"
                    /\ chunk[c].attempt = "Matched"
                    /\ chunk'[c].pc = "ret"]_vars
C12_Witness ==
    /\ pc = "exit"
    /\ found_flag
    /\ err_calls # {}
    /\ Len(lenlog) > 1

\* C13: found_flag.store(true) runs at most once in a run, whatever the number of
\* matching candidates and of workers.
C13_FlagStoredOnce == stores <= 1

\* The verification calls completed in the run so far, and the workers that are
\* between the return of try_password (line 270) and progress.inc (line 271).
RECURSIVE SumAttempts(_)
SumAttempts(log) ==
    IF log = << >> THEN 0 ELSE log[1].attempts + SumAttempts(Tail(log))
TotalCalls == SumAttempts(lenlog) + (IF pc = "install" THEN calls ELSE 0)
InFlight == Cardinality({c \in DOMAIN chunk : chunk[c].pc = "inc"})

\* C14 as claimed: in every reachable state the progress counter equals the
\* number of verification calls completed and does not exceed the keyspace size.
C14_ProgressEqualsCalls ==
    /\ progress = TotalCalls
    /\ progress <= total_attempts
\* C14 as the code has it: the counter equals the calls completed less the
\* workers that have not yet reported their last call (at most one call per
\* worker), so it equals the calls completed whenever no worker is in between,
\* as when a length returns; each call is counted once whatever its outcome; the
\* counter never decreases and never exceeds the keyspace size of the run.
C14_ProgressAccounting ==
    /\ [](/\ progress + InFlight = TotalCalls
          /\ (args.threads >= 1 => InFlight <= args.threads)
          /\ TotalCalls <= total_attempts
          /\ (pc \in {"brute_force", "report", "exit"} => progress = TotalCalls))
    /\ [][progress' >= progress]_vars
C14_Witness ==
    /\ InFlight = 2
    /\ progress > 0
    /\ \E c \in DOMAIN chunk : chunk[c].pc = "inc" /\ chunk[c].attempt = "Error"
    /\ \E c \in DOMAIN chunk : chunk[c].pc = "inc" /\ chunk[c].attempt = "Matched"

\* C15: no candidate of a length is verified twice: the indices a chunk has
\* verified are the first `tried` of its range, in order, each once; the ranges
\* verified by two chunks do not meet; and every call of the length is one of them.
RECURSIVE SumTried(_)
SumTried(cs) ==
    IF cs = {} THEN 0
    ELSE LET c == CHOOSE x \in cs : TRUE IN chunk[c].tried + SumTried(cs \ {c})
FirstVerified(c) == chunk_start(c, chunk_size)
LastVerified(c) == chunk_start(c, chunk_size) + chunk[c].tried - 1
C15_NoDuplicateWork ==
    pc = "install"
        => /\ \A c \in DOMAIN chunk :
                 /\ chunk[c].pc = "verify" => chunk[c].index = LastVerified(c) + 1
                 /\ chunk[c].pc \in {"inc", "store", "ret"}
                       => chunk[c].index = LastVerified(c)
                 /\ chunk[c].pc = "pending" => chunk[c].tried = 0
           /\ \A c, d \in DOMAIN chunk :
                 (c # d /\ chunk[c].tried > 0 /\ chunk[d].tried > 0)
                     => LastVerified(c) < FirstVerified(d)
                            \/ LastVerified(d) < FirstVerified(c)
           /\ calls = SumTried(DOMAIN chunk)
C15_Witness ==
    /\ pc = "install"
    /\ Cardinality(Running) = 2
    /\ \A c \in Running : chunk[c].tried > 1
    /\ calls > 2

\* C16: once a chunk has returned an Error to find_map_any no pending chunk is
\* started; and when the verifier fails on every candidate the run reports Error,
\* never NotFound, after at most W * chunk_size attempts.
ErrorReturned ==
    \E c \in DOMAIN chunk : chunk[c].pc = "done" /\ chunk[c].item.kind = "Err"
C16_ErrorStopsDispatch ==
    /\ [][(pc = "install" /\ pc' = "install" /\ ErrorReturned)
             => \A c \in DOMAIN chunk :
                    chunk[c].pc = "pending" => chunk'[c].pc = "pending"]_vars
    /\ []((EveryCandidate \in errPw /\ pc = "install")
             => calls <= args.threads * chunk_size)
    /\ []((EveryCandidate \in errPw /\ Returned)
             => /\ result.kind = "Err"
                /\ TotalCalls <= args.threads * chunk_size)

\* C17: of several errors of one length, with no match, the one returned is a
\* function of the inputs and not of the interleaving: the error of the lowest
\* index among the candidates the verifier fails on.
LowestError(len) ==
    CHOOSE e \in ErrorsOfLen(len) :
        \A f \in ErrorsOfLen(len) : ValueOf(charset, e) <= ValueOf(charset, f)
HighestError(len) ==
    CHOOSE e \in ErrorsOfLen(len) :
        \A f \in ErrorsOfLen(len) : ValueOf(charset, e) >= ValueOf(charset, f)
C17_ErrorChoiceDeterministic ==
    \A e \in Searched :
        (EveryCandidate \notin errPw /\ MatchesOfLen(e.len) = {}
             /\ e.outcome.kind = "Err")
            => e.outcome = SomeErr(LowestError(e.len))
\* The other choice a function of the inputs could make for two errors, the
\* highest index: the same inputs with several workers also return the lowest.
C17_HighestErrorSurfaced ==
    \A e \in Searched :
        (EveryCandidate \notin errPw /\ MatchesOfLen(e.len) = {}
             /\ args.threads > 1 /\ e.outcome.kind = "Err")
            => e.outcome = SomeErr(HighestError(e.len))

\* C18: under fair scheduling a run that has started the search eventually
\* returns one of Matched, NotFound and Error, and no closure is running once
\* the outcome of a length is returned.
C18_EveryRunTerminates ==
    /\ (pc = "brute_force") ~> (pc = "exit" /\ Returned /\ Running = {})
    /\ [](Returned => result.kind \in {"Ok", "None", "Err"} /\ Running = {})

\* C19: for a keyspace size that validation accepted, the u64 computations of
\* the scheduler do not overflow: chunk_size is max(1000, K / (4W)), the sum
\* K + chunk_size - 1 fits, num_chunks is ceil(K / chunk_size), and every chunk
\* start and start + chunk_size fits; the search does not stop on an overflow.
ValidatedCombos == as_u64(checked_pow(Len(charset), as_u32(target_len)))
C19_NoSchedulerOverflow ==
    /\ pc # "panicked"
    /\ pc = "install"
          => /\ args.threads * CHUNKS_PER_THREAD <= U64_MAX
             /\ chunk_size = Max(MIN_CHUNK,
                                 ValidatedCombos \div (args.threads * CHUNKS_PER_THREAD))
             /\ ValidatedCombos + chunk_size - 1 <= U64_MAX
             /\ num_chunks * chunk_size >= ValidatedCombos
             /\ (num_chunks - 1) * chunk_size < ValidatedCombos
             /\ \A c \in 0..(num_chunks - 1) : c * chunk_size + chunk_size <= U64_MAX

====
